---------------------------- MODULE Spec2Model ----------------------------
(***************************************************************************)
(* A model of mdbenchmark/plot.py: the selection of benchmark rows         *)
(* (filter_dataframe_for_plotting), the grouping into series               *)
(* (plot_over_group, plot_line, plot_projection), the x-tick step          *)
(* (get_xsteps) and the tick computations of the plot command.             *)
(*                                                                         *)
(* A data frame is a sequence of rows; a row is a record with the columns  *)
(* host, module, gpu, nodes, ncores and ns_day ("ns/day").  Module names   *)
(* are sequences of one-character strings, so that the substring and       *)
(* regular-expression matching of pandas' str.contains can be computed.    *)
(* Performances are modelled by integers.                                  *)
(***************************************************************************)
EXTENDS Integers, Sequences, FiniteSets

(***************************************************************************)
(* Bounds of the model.                                                    *)
(***************************************************************************)
MaxRows == 2
MaxNodes == 3
CoresPerNode == 64
MaxSize == 20
MaxMinX == 101
MaxStep == 3

(***************************************************************************)
(* Module names, as character sequences.                                   *)
(***************************************************************************)
gromacs == <<"g", "r", "o", "m", "a", "c", "s">>
namd == <<"n", "a", "m", "d">>
lammps == <<"l", "a", "m", "m", "p", "s">>
gromacs_5 == gromacs \o <<"/", "5">>
gromacs_5_1 == gromacs \o <<"/", "5", ".", "1">>
gromacs_5x1 == gromacs \o <<"/", "5", "-", "1">>
namd_2 == namd \o <<"/", "2">>

\* plot.py line 153: the names that are accepted without an existence check
FamilyModules == {gromacs, namd}

(***************************************************************************)
(* The inputs the specifications draw from.                                *)
(***************************************************************************)
DataHosts == {"draco", "hydra"}
DataModules == {gromacs_5_1, gromacs_5x1, namd_2}
HostRequests ==
    { <<>>, <<"draco">>, <<"ghost">>, <<"draco", "hydra">>,
      <<"draco", "ghost">>, <<"draco", "draco">> }
ModuleRequests ==
    { <<>>, <<gromacs>>, <<namd>>, <<gromacs_5>>, <<gromacs_5_1>>,
      <<lammps>>, <<gromacs, lammps>>, <<gromacs_5_1, namd_2>> }
Perfs == {0, 5, 20}

Row(h, m, g, n, p) ==
    [host |-> h, module |-> m, gpu |-> g, nodes |-> n,
     ncores |-> n * CoresPerNode, ns_day |-> p]

SelectRows == { Row(h, m, g, 1, 20) : h \in DataHosts, m \in DataModules, g \in BOOLEAN }
SeriesRows == { Row("draco", namd_2, g, n, p) : g \in BOOLEAN, n \in 1..MaxNodes, p \in Perfs }

Frames(R) == UNION { [1..n -> R] : n \in 0..MaxRows }

\* --xtick-step: not given (None), or an integer
NoStep == [given |-> FALSE, value |-> 0]
GivenStep(v) == [given |-> TRUE, value |-> v]

(***************************************************************************)
(* Helpers over frames.                                                    *)
(***************************************************************************)
Range(s) == { s[i] : i \in 1..Len(s) }
Column(frame, c) == [i \in 1..Len(frame) |-> frame[i][c]]
\* np.unique(df["host"]): the distinct hosts
UniqueHosts(frame) == Range(Column(frame, "host"))

SetMin(S) == CHOOSE x \in S : \A y \in S : x <= y
SetMax(S) == CHOOSE x \in S : \A y \in S : y <= x

VARIABLES csv_df, df, host_name, module_name, gpu, cpu, plot_cores, fit,
          xtick_step, pc, console, series, size, min_x, max_x, step,
          max_y, yticks_steps, exception

vars == <<csv_df, df, host_name, module_name, gpu, cpu, plot_cores, fit,
          xtick_step, pc, console, series, size, min_x, max_x, step,
          max_y, yticks_steps, exception>>

options == <<csv_df, host_name, module_name, gpu, cpu, plot_cores, fit, xtick_step>>
results == <<series, size, min_x, max_x, step, max_y, yticks_steps, exception>>

(***************************************************************************)
(* console.info and console.error.  A message is a record; an error ends   *)
(* the run (sys.exit).                                                     *)
(***************************************************************************)
NothingToPlot == "CPU and GPU not set. Nothing to plot. Exiting."
EmptyDataset == "Your filtering led to an empty dataset. Exiting."
HostsNotFound == "Could not find all provided hosts. Available hosts are:"
ModuleMissing == "The module does not exist in your data. Exiting."
NoBenchmarks == "Your selections contained no benchmarking information."

Msg(level, text, hosts, module) ==
    [level |-> level, text |-> text, hosts |-> hosts, module |-> module]

info(text, hosts, module) == <<Msg("info", text, hosts, module)>>

error(out, text, hosts, module) ==
    /\ console' = console \o out \o <<Msg("error", text, hosts, module)>>
    /\ pc' = "exit"

Errors == SelectSeq(console, LAMBDA m : m.level = "error")

(***************************************************************************)
(* filter_dataframe_for_plotting, lines 115-175, one action per statement  *)
(* group.                                                                  *)
(***************************************************************************)
\* ProcessorRows with the first test reading "if gpu:" in place of
\* "if gpu and cpu:"
ProcessorRowsGpuFirst(frame, g, c) ==
    IF g THEN SelectSeq(frame, LAMBDA r : r.gpu)
    ELSE SelectSeq(frame, LAMBDA r : ~r.gpu)

\* lines 117-125: the rows kept for the requested processor types
ProcessorRows(frame, g, c) ==
    IF g /\ c THEN frame
    ELSE IF g THEN SelectSeq(frame, LAMBDA r : r.gpu)
    ELSE SelectSeq(frame, LAMBDA r : ~r.gpu)

\* FilterProcessor without the last elif (lines 126-127)
FilterProcessorUnchecked ==
    /\ pc = "filter_processor"
    /\ df' = (IF ~gpu /\ ~cpu THEN df ELSE ProcessorRows(df, gpu, cpu))
    /\ console' = console \o
         (IF ~gpu /\ ~cpu THEN <<>>
          ELSE info(IF gpu /\ cpu THEN "Plotting GPU and CPU data."
                    ELSE IF gpu THEN "Plotting GPU data only."
                    ELSE "Plotting CPU data only.", {}, <<>>))
    /\ pc' = "check_empty"
    /\ UNCHANGED <<options, results>>

\* lines 117-127
FilterProcessor ==
    /\ pc = "filter_processor"
    /\ IF ~gpu /\ ~cpu
       THEN /\ error(<<>>, NothingToPlot, {}, <<>>)
            /\ UNCHANGED df
       ELSE /\ df' = ProcessorRows(df, gpu, cpu)
            /\ console' = console \o
                 info(IF gpu /\ cpu THEN "Plotting GPU and CPU data."
                      ELSE IF gpu THEN "Plotting GPU data only."
                      ELSE "Plotting CPU data only.", {}, <<>>)
            /\ pc' = "check_empty"
    /\ UNCHANGED <<options, results>>

\* lines 129-130
CheckEmpty ==
    /\ pc = "check_empty"
    /\ IF df = <<>>
       THEN error(<<>>, EmptyDataset, {}, <<>>)
       ELSE /\ pc' = "filter_hosts"
            /\ UNCHANGED console
    /\ UNCHANGED <<df, options, results>>

\* line 132: df[df["host"].isin(host_name)]
HostRows(frame, hosts) == SelectSeq(frame, LAMBDA r : r.host \in Range(hosts))

\* line 135: the requested hosts were not all found
HostsMissing(frame, hosts) == Cardinality(UniqueHosts(HostRows(frame, hosts))) # Len(hosts)

\* FilterHosts with the error listing the hosts of df_filtered_hosts
FilterHostsListsMatched ==
    /\ pc = "filter_hosts"
    /\ IF HostsMissing(df, host_name)
       THEN /\ error(<<>>, HostsNotFound, UniqueHosts(HostRows(df, host_name)), <<>>)
            /\ UNCHANGED df
       ELSE /\ df' = IF host_name = <<>> THEN df ELSE HostRows(df, host_name)
            /\ console' = console \o
                 (IF host_name = <<>>
                  THEN info("Plotting all hosts in input file.", {}, <<>>)
                  ELSE info("Data for the following hosts will be plotted:",
                            UniqueHosts(HostRows(df, host_name)), <<>>))
            /\ pc' = "check_modules"
    /\ UNCHANGED <<options, results>>

\* lines 132-150
FilterHosts ==
    /\ pc = "filter_hosts"
    /\ IF HostsMissing(df, host_name)
       THEN /\ error(<<>>, HostsNotFound,
                     UniqueHosts(df), <<>>)
            /\ UNCHANGED df
       ELSE /\ df' = IF host_name = <<>> THEN df ELSE HostRows(df, host_name)
            /\ console' = console \o
                 (IF host_name = <<>>
                  THEN info("Plotting all hosts in input file.", {}, <<>>)
                  ELSE info("Data for the following hosts will be plotted:",
                            UniqueHosts(HostRows(df, host_name)), <<>>))
            /\ pc' = "check_modules"
    /\ UNCHANGED <<options, results>>

\* a occurs in s as a substring
Contains(s, a) == \E i \in 0..(Len(s) - Len(a)) : SubSeq(s, i + 1, i + Len(a)) = a

\* FirstMissing without the family names of line 153
FirstMissingNoFamily(frame, names) ==
    LET bad == { i \in 1..Len(names) :
                   names[i] \notin Range(Column(frame, "module")) }
    IN  IF bad = {} THEN 0 ELSE SetMin(bad)

\* FirstMissing with a substring test in place of the list membership
FirstMissingSubstring(frame, names) ==
    LET bad == { i \in 1..Len(names) :
                   /\ names[i] \notin FamilyModules
                   /\ \A m \in Range(Column(frame, "module")) : ~Contains(m, names[i]) }
    IN  IF bad = {} THEN 0 ELSE SetMin(bad)

\* lines 153-160: the first requested module that is neither a family name
\* nor the module of a row, as an index into names (0: there is none)
FirstMissing(frame, names) ==
    LET bad == { i \in 1..Len(names) :
                   /\ names[i] \notin FamilyModules
                   /\ names[i] \notin Range(Column(frame, "module")) }
    IN  IF bad = {} THEN 0 ELSE SetMin(bad)

\* lines 153-156: the note for a module that passes the check
ModuleNote(name) ==
    IF name \in FamilyModules
    THEN Msg("info", "Plotting all modules for engine", {}, name)
    ELSE Msg("info", "Plotting module", {}, name)

\* lines 152-160
CheckModules ==
    /\ pc = "check_modules"
    /\ LET k == FirstMissing(df, module_name)
           n == IF k = 0 THEN Len(module_name) ELSE k - 1
           notes == [i \in 1..n |-> ModuleNote(module_name[i])]
       IN  IF k # 0
           THEN error(notes, ModuleMissing,
                      {}, module_name[k])
           ELSE /\ console' = console \o notes
                /\ pc' = "filter_modules"
    /\ UNCHANGED <<df, options, results>>

(***************************************************************************)
(* df["module"].str.contains("|".join(module_name)), line 167: the joined  *)
(* names are one regular expression, searched in each module.  Of the      *)
(* regular expression syntax the model has '|' (alternation) and '.' (any  *)
(* character); every other character stands for itself.                   *)
(***************************************************************************)
RECURSIVE Join(_)
Join(names) ==
    IF names = <<>> THEN <<>>
    ELSE IF Len(names) = 1 THEN names[1]
    ELSE names[1] \o <<"|">> \o Join(Tail(names))

RECURSIVE Alternatives(_)
Alternatives(pattern) ==
    LET bars == { i \in 1..Len(pattern) : pattern[i] = "|" }
    IN  IF bars = {} THEN <<pattern>>
        ELSE LET k == SetMin(bars)
             IN  <<SubSeq(pattern, 1, k - 1)>>
                   \o Alternatives(SubSeq(pattern, k + 1, Len(pattern)))

\* re.search of one alternative in s
RegexSearch(alt, s) ==
    \E i \in 0..(Len(s) - Len(alt)) :
        \A j \in 1..Len(alt) : alt[j] = "." \/ alt[j] = s[i + j]

str_contains(s, pattern) ==
    \E alt \in Range(Alternatives(pattern)) : RegexSearch(alt, s)

\* line 167
ModuleRows(frame, names) ==
    SelectSeq(frame, LAMBDA r : str_contains(r.module, Join(names)))

\* lines 162-167
FilterModules ==
    /\ pc = "filter_modules"
    /\ IF module_name = <<>>
       THEN /\ console' = console \o info("Plotting all modules in your input data.", {}, <<>>)
            /\ UNCHANGED df
       ELSE /\ df' = ModuleRows(df, module_name)
            /\ UNCHANGED console
    /\ pc' = "check_selection"
    /\ UNCHANGED <<options, results>>

\* the function without its last check
NothingSelectedNever(frame) == FALSE

\* line 169: the guard of the last error
NothingSelected(frame) == frame = <<>>

\* lines 169-175
CheckSelection ==
    /\ pc = "check_selection"
    /\ IF NothingSelected(df)
       THEN error(<<>>, NoBenchmarks, {}, <<>>)
       ELSE /\ pc' = "plot_over_group"
            /\ UNCHANGED console
    /\ UNCHANGED <<df, options, results>>

(***************************************************************************)
(* plot_over_group, plot_line and plot_projection, lines 61-112.           *)
(***************************************************************************)
\* lines 92 and 299
selection(cores) == IF cores THEN "ncores" ELSE "nodes"

Key(r) == <<r.gpu, r.module, r.host>>

\* lines 94-96: df.groupby(["gpu", "module", "host"]) keeps, in each group,
\* the rows in the order of the frame
GroupRows(frame, key) == SelectSeq(frame, LAMBDA r : Key(r) = key)

\* lines 68-71: the x values of the projection.  The slope and intercept
\* come from utils.calc_slope_intercept and are not part of the model.
plot_projection(rows, sel) ==
    LET x     == Column(rows, sel)
        xstep == x[2] - x[1]
        xmax  == x[Len(x)] + xstep
    IN  <<0>> \o x \o <<xmax>>

\* lines 77-87 and 97-104: one line per group, with its label parts and, when
\* fitted, the x values of its projection (<<>>: no projection)
plot_line(rows, sel, key, fitted) ==
    [gpu |-> key[1], module |-> key[2], host |-> key[3],
     pu |-> IF key[1] THEN "GPU" ELSE "CPU",
     rows |-> rows,
     projection |-> IF fitted /\ Len(rows) > 1
                    THEN plot_projection(rows, sel) ELSE <<>>]

\* lines 292-296 and 90-112
PlotOverGroup ==
    /\ pc = "plot_over_group"
    /\ series' = { plot_line(GroupRows(df, k), selection(plot_cores), k, fit) :
                     k \in { Key(df[i]) : i \in 1..Len(df) } }
    /\ pc' = "xticks"
    /\ UNCHANGED <<df, options, console, size, min_x, max_x, step, max_y,
                   yticks_steps, exception>>

(***************************************************************************)
(* get_xsteps, lines 36-58.                                                *)
(***************************************************************************)
\* line 55: "if xtick_step:" takes neither None nor 0
Truthy(xs) == xs.given /\ xs.value # 0

\* get_xsteps with the two heuristics in the other order
get_xsteps_swapped(sz, mn, cores, xs) ==
    LET s1 == IF cores /\ ((sz > 10) \/ (mn >= 100)) THEN 3 ELSE 1
        s2 == IF sz >= 18 THEN 2 ELSE s1
    IN  IF Truthy(xs) THEN xs.value ELSE s2

get_xsteps(sz, mn, cores, xs) ==
    LET s1 == IF sz >= 18 THEN 2 ELSE 1
        s2 == IF cores /\ ((sz > 10) \/ (mn >= 100)) THEN 3 ELSE s1
    IN  IF Truthy(xs) THEN xs.value ELSE s2

\* line 303: the number of elements of np.arange(lo, hi + lo, lo), for
\* integers 0 < lo <= hi
ArangeSize(lo, hi) == (hi + lo - 1) \div lo

\* lines 299-308
UpdateXticks ==
    /\ pc = "xticks"
    /\ LET x  == Range(Column(df, selection(plot_cores)))
           lo == IF plot_cores THEN SetMin(x) ELSE 1
           hi == SetMax(x)
       IN  /\ min_x' = lo
           /\ max_x' = hi
           /\ size' = ArangeSize(lo, hi)
           /\ step' = get_xsteps(ArangeSize(lo, hi), lo, plot_cores, xtick_step)
    /\ pc' = "yticks"
    /\ UNCHANGED <<df, options, console, series, max_y, yticks_steps, exception>>

\* line 311: df["ns/day"].max() or 50
MaxY(frame) ==
    LET m == SetMax(Range(Column(frame, "ns_day")))
    IN  IF m = 0 THEN 50 ELSE m

\* line 312, for a numpy number: ((max_y + 1) / 10).astype(int)
YticksSteps(m) == (m + 1) \div 10

\* lines 310-315.  When the maximum is 0, max_y is the Python int 50 and
\* (max_y + 1) / 10 a Python float, which has no astype.  When the interval
\* is 0, np.arange(0, stop, 0) raises (ZeroDivisionError or ValueError,
\* with the numpy version).
UpdateYticks ==
    /\ pc = "yticks"
    /\ max_y' = MaxY(df)
    /\ IF SetMax(Range(Column(df, "ns_day"))) = 0
       THEN /\ exception' = "AttributeError"
            /\ pc' = "crash"
            /\ UNCHANGED yticks_steps
       ELSE /\ yticks_steps' = YticksSteps(MaxY(df))
            /\ IF YticksSteps(MaxY(df)) = 0
               THEN /\ exception' \in {"ZeroDivisionError", "ValueError"}
                    /\ pc' = "crash"
               ELSE /\ pc' = "save"
                    /\ UNCHANGED exception
    /\ UNCHANGED <<df, options, console, series, size, min_x, max_x, step>>

\* lines 317-341: watermark, legend, output name and savefig
Save ==
    /\ pc = "save"
    /\ pc' = "done"
    /\ console' = console \o info("Your file was saved in the working directory.", {}, <<>>)
    /\ UNCHANGED <<df, options, results>>

(***************************************************************************)
(* The plot command, from line 290 on, for the selections of a frame whose *)
(* rows differ in host, module and processor type.                         *)
(***************************************************************************)
Idle ==
    /\ console = <<>>
    /\ series = {}
    /\ max_x = 0
    /\ step = 0
    /\ max_y = 0
    /\ yticks_steps = 0
    /\ exception = ""

Init ==
    /\ csv_df \in Frames(SelectRows)
    /\ df = csv_df
    /\ host_name \in HostRequests
    /\ module_name \in ModuleRequests
    /\ gpu \in BOOLEAN
    /\ cpu \in BOOLEAN
    /\ plot_cores = FALSE
    /\ fit = TRUE
    /\ xtick_step = NoStep
    /\ pc = "filter_processor"
    /\ Idle
    /\ size = 0
    /\ min_x = 0

Next ==
    \/ FilterProcessor
    \/ CheckEmpty
    \/ FilterHosts
    \/ CheckModules
    \/ FilterModules
    \/ CheckSelection
    \/ PlotOverGroup
    \/ UpdateXticks
    \/ UpdateYticks
    \/ Save

Spec == Init /\ [][Next]_vars

(***************************************************************************)
(* The plot command with everything selected, for frames whose rows differ *)
(* in processor type, node count and performance, in any row order.        *)
(***************************************************************************)
InitSeries ==
    /\ csv_df \in Frames(SeriesRows)
    /\ df = csv_df
    /\ host_name = <<>>
    /\ module_name = <<>>
    /\ gpu = TRUE
    /\ cpu = TRUE
    /\ plot_cores \in BOOLEAN
    /\ fit \in BOOLEAN
    /\ xtick_step \in {NoStep, GivenStep(-1), GivenStep(0), GivenStep(2)}
    /\ pc = "filter_processor"
    /\ Idle
    /\ size = 0
    /\ min_x = 0

SpecSeries == InitSeries /\ [][Next]_vars

(***************************************************************************)
(* get_xsteps alone, called with every argument of the bounds.             *)
(***************************************************************************)
InitXsteps ==
    /\ csv_df = <<>>
    /\ df = <<>>
    /\ host_name = <<>>
    /\ module_name = <<>>
    /\ gpu = TRUE
    /\ cpu = TRUE
    /\ plot_cores \in BOOLEAN
    /\ fit = TRUE
    /\ xtick_step \in {NoStep} \cup { GivenStep(v) : v \in (-MaxStep)..MaxStep }
    /\ pc = "get_xsteps"
    /\ Idle
    /\ size \in 0..MaxSize
    /\ min_x \in 1..MaxMinX

CallGetXsteps ==
    /\ pc = "get_xsteps"
    /\ step' = get_xsteps(size, min_x, plot_cores, xtick_step)
    /\ pc' = "returned"
    /\ UNCHANGED <<df, options, console, series, size, min_x, max_x, max_y,
                   yticks_steps, exception>>

NextXsteps == CallGetXsteps

SpecXsteps == InitXsteps /\ [][NextXsteps]_vars

(***************************************************************************)
(* Properties.                                                             *)
(***************************************************************************)
InFilter ==
    pc \in {"filter_processor", "check_empty", "filter_hosts", "check_modules",
            "filter_modules", "check_selection"}
\* the function has returned: df is its result
Plotting == pc \in {"plot_over_group", "xticks", "yticks", "save", "done", "crash"}
LastError == console[Len(console)]

\* the rows of the input of a requested processor type, and of these the rows
\* of a requested host
KeptByProcessor == SelectSeq(csv_df, LAMBDA r : IF r.gpu THEN gpu ELSE cpu)
KeptByHosts ==
    SelectSeq(KeptByProcessor, LAMBDA r : host_name = <<>> \/ r.host \in Range(host_name))
Hosts(frame) == { frame[i].host : i \in 1..Len(frame) }
Modules(frame) == { frame[i].module : i \in 1..Len(frame) }
\* the run has passed the processor and host selection and the module check
PastModuleCheck ==
    \/ Plotting
    \/ pc = "exit" /\ LastError.text \in {ModuleMissing, NoBenchmarks}
\* name matches at some place of s, a '.' of name standing for any character
Matches(name, s) ==
    \E i \in 0..(Len(s) - Len(name)) :
        \A j \in 1..Len(name) : name[j] \in {".", s[i + j]}

\* C1: with neither processor type requested the run ends with the one error
\* "Nothing to plot", whatever the data, hosts and modules, and nothing is
\* grouped.
C1_NeitherProcessorFails ==
    (~gpu /\ ~cpu /\ pc # "filter_processor")
        => /\ pc = "exit"
           /\ console = <<Msg("error", NothingToPlot, {}, <<>>)>>
           /\ series = {}
           /\ df = csv_df

C1_Witness ==
    /\ ~gpu /\ ~cpu /\ pc = "exit"
    /\ Len(csv_df) = 2 /\ host_name # <<>> /\ module_name # <<>>

\* C2 as stated, in the runs where a processor type is requested and rows of
\* it exist (so that no earlier error applies): a requested host that matches
\* no row of the input ends the run with the hosts error, which lists the
\* distinct hosts of the input.
C2_Original ==
    (/\ gpu \/ cpu
     /\ KeptByProcessor # <<>>
     /\ host_name # <<>>
     /\ \E h \in Range(host_name) : h \notin Hosts(csv_df)
     /\ pc \notin {"filter_processor", "check_empty", "filter_hosts"})
        => /\ pc = "exit"
           /\ LastError.text = HostsNotFound
           /\ LastError.hosts = Hosts(csv_df)

\* C2, amended: when a processor type is requested and rows of it remain, a
\* requested host that matches none of the remaining rows ends the run with
\* the hosts error, which lists the distinct hosts of the remaining rows (of
\* the input when both processor types are requested).
C2_HostsOfRemainingRows ==
    (/\ gpu \/ cpu
     /\ KeptByProcessor # <<>>
     /\ host_name # <<>>
     /\ \E h \in Range(host_name) : h \notin Hosts(KeptByProcessor)
     /\ pc \notin {"filter_processor", "check_empty", "filter_hosts"})
        => /\ pc = "exit"
           /\ Len(Errors) = 1
           /\ LastError.text = HostsNotFound
           /\ LastError.hosts = Hosts(KeptByProcessor)
           /\ (gpu /\ cpu) => LastError.hosts = Hosts(csv_df)

C2_Witness ==
    /\ pc = "exit" /\ gpu /\ ~cpu
    /\ host_name = <<"draco", "ghost">>
    /\ LastError.text = HostsNotFound
    /\ LastError.hosts = {"draco"}
    /\ Hosts(csv_df) = {"draco", "hydra"}

\* C3 as stated: with one family name requested the function returns the rows
\* it returns with no module requested.
C3_Original ==
    (module_name \in {<<gromacs>>, <<namd>>} /\ Plotting) => df = KeptByHosts

\* C3, amended: a family name is never reported missing, and it selects the
\* remaining rows whose module contains it; with no such row the run ends
\* with the error "no benchmarking information".
C3_FamilySelectsItsModules ==
    (module_name \in {<<gromacs>>, <<namd>>} /\ PastModuleCheck)
        => LET want == SelectSeq(KeptByHosts,
                                 LAMBDA r : Contains(r.module, module_name[1]))
           IN  IF want = <<>>
               THEN pc = "exit" /\ LastError.text = NoBenchmarks
               ELSE Plotting /\ df = want

C3_Witness ==
    /\ module_name = <<gromacs>> /\ pc = "plot_over_group"
    /\ Len(df) = 1 /\ Len(KeptByHosts) = 2

\* C4 as stated: with only other names requested, a name is reported missing
\* only when no remaining row's module contains it, and the rows returned
\* are the remaining rows whose module contains a requested name.
C4_Original ==
    (/\ module_name # <<>>
     /\ \A n \in Range(module_name) : n \notin FamilyModules
     /\ PastModuleCheck)
        => /\ (pc = "exit" /\ LastError.text = ModuleMissing)
                => \A m \in Modules(KeptByHosts) : ~Contains(m, LastError.module)
           /\ Plotting
                => df = SelectSeq(KeptByHosts, LAMBDA r :
                            \E n \in Range(module_name) : Contains(r.module, n))

\* C4, amended: with only other names requested, the first requested name
\* that is not the module of a remaining row is reported missing, also when
\* modules contain it; when every name is the module of a row, the rows
\* returned are the remaining rows whose module the regular expression
\* name|name|... matches.
C4_ExactNamesThenPattern ==
    (/\ module_name # <<>>
     /\ \A n \in Range(module_name) : n \notin FamilyModules
     /\ PastModuleCheck)
        => LET missing == { i \in 1..Len(module_name) :
                              module_name[i] \notin Modules(KeptByHosts) }
           IN  IF missing # {}
               THEN /\ pc = "exit"
                    /\ LastError.text = ModuleMissing
                    /\ LastError.module = module_name[SetMin(missing)]
               ELSE /\ Plotting
                    /\ df = SelectSeq(KeptByHosts, LAMBDA r :
                                \E n \in Range(module_name) : Matches(n, r.module))

C4_Witness ==
    /\ pc = "exit" /\ LastError.text = ModuleMissing
    /\ LastError.module = gromacs_5
    /\ \E m \in Modules(KeptByHosts) : Contains(m, gromacs_5)

\* C5 as stated: with no host, no module and both processor types requested
\* the function returns its input and reports no error.
C5_Original ==
    (host_name = <<>> /\ module_name = <<>> /\ gpu /\ cpu /\ ~InFilter)
        => Plotting /\ df = csv_df /\ Errors = <<>>

\* C5, amended: the same for an input with at least one row; for an input
\* without rows the run ends with the error "empty dataset".
C5_RoundTripOfNonEmpty ==
    (host_name = <<>> /\ module_name = <<>> /\ gpu /\ cpu /\ ~InFilter)
        => IF csv_df = <<>>
           THEN pc = "exit" /\ LastError.text = EmptyDataset
           ELSE Plotting /\ df = csv_df /\ Errors = <<>>

C5_Witness ==
    /\ host_name = <<>> /\ module_name = <<>> /\ gpu /\ cpu
    /\ pc = "plot_over_group" /\ Len(df) = 2
    /\ df[1].gpu /\ ~df[2].gpu /\ df[1].module # df[2].module

\* the step of the two heuristics
Heuristic ==
    IF plot_cores /\ (size > 10 \/ min_x >= 100) THEN 3
    ELSE IF size >= 18 THEN 2 ELSE 1

C7_StepAtLeastOne ==
    pc \in {"yticks", "save", "done", "crash"} => step >= 1

\* C8: the interval of the y ticks is (m + 1) \div 10, for m the largest
\* performance or 50 when that is 0, and it is at least 1, so that the ticks
\* can be computed.
C8_YticksInterval ==
    pc \in {"save", "done", "crash"}
        => LET top == SetMax({ df[i].ns_day : i \in 1..Len(df) })
               m   == IF top = 0 THEN 50 ELSE top
           IN  /\ pc # "crash"
               /\ yticks_steps = (m + 1) \div 10
               /\ yticks_steps >= 1

\* C9: an error is the only error and the last message of the run, ends the
\* run where it is raised, before anything is grouped or computed, and the
\* plot is made of a frame that has rows.
C9_ErrorEndsTheRun ==
    /\ Len(Errors) <= 1
    /\ pc = "exit" <=> Errors # <<>>
    /\ pc = "exit"
         => /\ LastError.level = "error"
            /\ series = {} /\ size = 0 /\ min_x = 0 /\ max_x = 0 /\ step = 0
            /\ max_y = 0 /\ yticks_steps = 0 /\ exception = ""
            /\ LastError.text = NothingToPlot => ~gpu /\ ~cpu /\ df = csv_df
            /\ LastError.text = EmptyDataset => df = <<>>
            /\ LastError.text = HostsNotFound => df = KeptByProcessor
            /\ LastError.text = ModuleMissing => df = KeptByHosts
            /\ LastError.text = NoBenchmarks => df = <<>>
    /\ Plotting => df # <<>>

C9_Witness ==
    /\ pc = "exit" /\ LastError.text = NoBenchmarks
    /\ Len(console) > 1 /\ KeptByHosts # <<>>

\* C10: in each series the rows are in ascending order of the x field, so
\* that a projection through two different x values is fitted through the
\* two smallest and its end lies beyond the largest x.
C10_SeriesAscending ==
    pc \in {"xticks", "yticks", "save", "done", "crash"}
        => \A s \in series :
             LET x == [i \in 1..Len(s.rows) |-> s.rows[i][selection(plot_cores)]]
             IN  /\ \A i, j \in 1..Len(x) : i < j => x[i] <= x[j]
                 /\ (s.projection # <<>> /\ x[1] # x[2])
                      => /\ \A i \in 3..Len(x) : x[2] <= x[i]
                         /\ \A i \in 1..Len(x) :
                              x[i] < s.projection[Len(s.projection)]
=============
